---- MODULE Spec2Model ----
(***************************************************************************)
(* The video emotion-analysis pipeline of virtuaid-backend:                *)
(*   analysis/utils/emotion_detector.py  EmotionDetector (sampler,         *)
(*                                       classifier, analyze_video)        *)
(*   analysis/tasks.py                   analyze_video_emotions (the job), *)
(*                                       create_emotion_timeline           *)
(*   analysis/models.py                  Video, EmotionAnalysis,           *)
(*                                       EmotionTimeline,                  *)
(*                                       EmotionAnalysisSummary            *)
(*                                                                         *)
(* Numbers.  A timestamp is current_frame / fps; fps is fixed for one      *)
(* video, so a timestamp is held as its numerator current_frame (a time in *)
(* units of 1/fps second).  A score is a float in [0,1]; the classifier's  *)
(* outputs are drawn from ScoreLevels.  A quotient sum / count (a segment  *)
(* confidence, a summary average) is held as the exact fraction            *)
(* [num, den]; fractions are compared by cross-multiplication.             *)
(***************************************************************************)
EXTENDS Integers, Sequences, FiniteSets, TLC

VARIABLES
    videoExists,       \* a Video row with the task's video_id exists
    status,            \* Video.status of that row
    analysesDb,        \* persisted EmotionAnalysis rows of the video
    timelineDb,        \* persisted EmotionTimeline rows of the video
    summaryDb,         \* persisted EmotionAnalysisSummary rows (OneToOne: 0 or 1)
    file,              \* the uploaded video file as OpenCV reports it
    model_file_ok,     \* the serialized model exists and loads
    frame_rate,        \* the task's frame_rate argument
    pc,                \* position of the running analyze_video_emotions task
    ret,               \* its return value ("none" until it returns)
    model,             \* EmotionDetector.model ("None" or "loaded")
    load_count,        \* number of times the model load was attempted
    frames,            \* analyze_video: the sampled frames (their timestamps)
    classified,        \* analyze_video: what process_frame returned, per sampled frame
    results,           \* analyze_video: the result dictionaries
    processed_count,   \* analyze_video: frames classified
    failed_count,      \* analyze_video: frames that failed
    analyze_returned,  \* analyze_video has returned its results to the task
    emotion_analyses,  \* task: the EmotionAnalysis objects built from results
    emotion_counts,    \* task: histogram of per-frame dominant emotions
    emotion_sums,      \* task: per-emotion score sums
    emotion_segments,  \* create_emotion_timeline: the segments it built
    task_queue,        \* analyze_video_emotions tasks queued behind the current one
    reanalyze_count,   \* reanalyze requests served so far
    sessions,          \* the TherapySession rows: status and end_time, by pk
    title,             \* Video.title of the row (description, links alike)
    video_title        \* title held by the task's in-memory Video object

vars == <<videoExists, status, analysesDb, timelineDb, summaryDb, file,
          model_file_ok, frame_rate, pc, ret, model, load_count, frames,
          classified, results, processed_count, failed_count,
          analyze_returned, emotion_analyses, emotion_counts, emotion_sums,
          emotion_segments, task_queue, reanalyze_count, sessions, title,
          video_title>>

(***************************************************************************)
(* Bounds of the model and constants of the program.                       *)
(***************************************************************************)
MaxFrameCount == 4          \* frames in a video
MaxFps == 2                 \* native frame rate reported by the container
MaxReanalyze == 1           \* reanalyze requests for the video
MaxRerunFrames == 2         \* frames in a video that is analyzed again
MaxSamplerFps == 4          \* native frame rate of a video given to the sampler
MaxRate == 3                \* frame_rate argument given to the sampler
MaxReadable == 5            \* frames the decoder delivers to the sampler
MaxSegmenterFrames == 3     \* frame results given to the segmenter
MaxSegmenterStart == 1      \* timestamp of the first frame result
MaxSegmenterInterval == 2   \* native frames between two frame results
MaxSessions == 3            \* therapy sessions
DefaultFrameRate == 1       \* frame_rate=1.0, the only rate the callers use
ScoreLevels == {0, 1}       \* classifier outputs: the floats 0.0 and 1.0

None == "None"

supported_emotions == <<"angry", "sad", "happy">>
TimelineKeysLegacy == <<"angry", "happy", "sad">>
TimelineKeys == <<"angry", "sad", "happy">>
SummaryKeys == <<"angry", "disgust", "fear", "happy", "neutral", "sad", "surprised">>

Range(s) == {s[i] : i \in DOMAIN s}

Rat(n, d) == [num |-> n, den |-> d]
RatGT(a, b) == a.num * b.den > b.num * a.den
RatEQ(a, b) == a.num * b.den = b.num * a.den

RECURSIVE SumSeq(_)
SumSeq(s) == IF s = <<>> THEN 0 ELSE Head(s) + SumSeq(Tail(s))

(***************************************************************************)
(* Python's max(d, key=d.get): the first key, in the dictionary's          *)
(* insertion order, whose value no other key's value exceeds.              *)
(***************************************************************************)
RECURSIVE PyMaxScan(_, _, _, _)
PyMaxScan(keys, f, i, best) ==
    IF i > Len(keys) THEN keys[best]
    ELSE PyMaxScan(keys, f, i + 1, IF f[keys[i]] > f[keys[best]] THEN i ELSE best)

PyMaxLast(keys, f) ==
    LET top == CHOOSE i \in DOMAIN keys :
                 /\ \A j \in DOMAIN keys : f[keys[j]] <= f[keys[i]]
                 /\ \A j \in DOMAIN keys : f[keys[j]] = f[keys[i]] => j <= i
    IN keys[top]

PyMax(keys, f) == PyMaxScan(keys, f, 2, 1)

RECURSIVE PyMaxRatScan(_, _, _, _)
PyMaxRatScan(keys, f, i, best) ==
    IF i > Len(keys) THEN keys[best]
    ELSE PyMaxRatScan(keys, f, i + 1,
                      IF RatGT(f[keys[i]], f[keys[best]]) THEN i ELSE best)

PyMaxRat(keys, f) == PyMaxRatScan(keys, f, 2, 1)

(***************************************************************************)
(* sorted(xs, key=lambda x: x.timestamp) and list.sort(key=...): a stable  *)
(* sort by timestamp.                                                      *)
(***************************************************************************)
RECURSIVE InsertByTimestamp(_, _)
InsertByTimestamp(sorted, x) ==
    IF sorted = <<>> THEN <<x>>
    ELSE IF sorted[Len(sorted)].timestamp <= x.timestamp THEN Append(sorted, x)
    ELSE Append(InsertByTimestamp(SubSeq(sorted, 1, Len(sorted) - 1), x),
                sorted[Len(sorted)])

RECURSIVE InsertByTimestampDesc(_, _)
InsertByTimestampDesc(sorted, x) ==
    IF sorted = <<>> THEN <<x>>
    ELSE IF sorted[Len(sorted)].timestamp >= x.timestamp THEN Append(sorted, x)
    ELSE Append(InsertByTimestampDesc(SubSeq(sorted, 1, Len(sorted) - 1), x),
                sorted[Len(sorted)])

RECURSIVE SortByTimestampDesc(_)
SortByTimestampDesc(xs) ==
    IF xs = <<>> THEN <<>>
    ELSE InsertByTimestampDesc(SortByTimestampDesc(SubSeq(xs, 1, Len(xs) - 1)),
                               xs[Len(xs)])

RECURSIVE SortByTimestamp(_)
SortByTimestamp(xs) ==
    IF xs = <<>> THEN <<>>
    ELSE InsertByTimestamp(SortByTimestamp(SubSeq(xs, 1, Len(xs) - 1)), xs[Len(xs)])

(***************************************************************************)
(* EmotionDetector.extract_frames (emotion_detector.py 125-196).  Every    *)
(* failure is logged and answered with the empty list.  The read loop      *)
(* keeps the frames whose 0-based index is a multiple of frame_interval.   *)
(***************************************************************************)
PyMax2(a, b) == IF a >= b THEN a ELSE b

FrameInterval(fps, rate) == PyMax2(1, fps \div rate)

RECURSIVE ReadLoopOffByOne(_, _, _, _)
ReadLoopOffByOne(readable, frame_interval, current_frame, kept) ==
    IF current_frame >= readable THEN kept
    ELSE ReadLoopOffByOne(readable, frame_interval, current_frame + 1,
                          IF (current_frame + 1) % frame_interval = 0
                          THEN Append(kept, [timestamp |-> current_frame])
                          ELSE kept)

RECURSIVE ReadLoopPastEnd(_, _, _, _)
ReadLoopPastEnd(readable, frame_interval, current_frame, kept) ==
    IF current_frame > readable THEN kept
    ELSE ReadLoopPastEnd(readable, frame_interval, current_frame + 1,
                         IF current_frame % frame_interval = 0
                         THEN Append(kept, [timestamp |-> current_frame])
                         ELSE kept)

RECURSIVE ReadLoop(_, _, _, _)
ReadLoop(readable, frame_interval, current_frame, kept) ==
    IF current_frame >= readable THEN kept
    ELSE ReadLoop(readable, frame_interval, current_frame + 1,
                  IF current_frame % frame_interval = 0
                  THEN Append(kept, [timestamp |-> current_frame])
                  ELSE kept)

extract_frames(f, rate) ==
    IF ~f.exists THEN <<>>
    ELSE IF ~f.opens THEN <<>>
    ELSE IF f.fps <= 0 \/ f.frame_count <= 0 THEN <<>>
    ELSE ReadLoop(f.readable, FrameInterval(f.fps, rate), 0, <<>>)

(***************************************************************************)
(* EmotionDetector.process_frame (72-123) returns None or a dictionary     *)
(* with one score per configured emotion.  ClassifierOutputs is what a     *)
(* successful call can return.                                             *)
(***************************************************************************)
ClassifierOutputs == [angry : ScoreLevels, sad : ScoreLevels, happy : ScoreLevels]

(* process_frame's None (a record, so that it compares with the            *)
(* dictionaries).                                                          *)
NoEmotionData == [none |-> TRUE]

(***************************************************************************)
(* EmotionDetector.load_model (32-70) on a detector whose model is m:      *)
(* the detector's model afterwards, the value returned and the number of   *)
(* load attempts made (tf.keras.models.load_model is reached only while    *)
(* the detector holds no model).                                           *)
(***************************************************************************)
load_modelUnguarded(m, file_ok) ==
    IF file_ok THEN [model |-> "loaded", ret |-> TRUE, attempts |-> 1]
    ELSE [model |-> m, ret |-> FALSE, attempts |-> 1]

load_model(m, file_ok) ==
    IF m = None
    THEN IF file_ok THEN [model |-> "loaded", ret |-> TRUE, attempts |-> 1]
         ELSE [model |-> None, ret |-> FALSE, attempts |-> 1]
    ELSE [model |-> m, ret |-> TRUE, attempts |-> 0]

(* analyze_video 227-235: a classified frame is appended with its          *)
(* timestamp; a failed one is only counted.                                *)
AppendResult(rs, timestamp, emotion_data) ==
    IF emotion_data # NoEmotionData
    THEN Append(rs, [timestamp |-> timestamp, angry |-> emotion_data.angry,
                     sad |-> emotion_data.sad, happy |-> emotion_data.happy])
    ELSE rs

(***************************************************************************)
(* analyze_video_emotions 59-95: the per-result loop of the aggregator.    *)
(***************************************************************************)
RECURSIVE DominantScan(_, _, _, _)
DominantScan(result, i, max_value, max_emotion) ==
    IF i > Len(supported_emotions) THEN max_emotion
    ELSE LET emotion == supported_emotions[i] IN
         IF result[emotion] > max_value
         THEN DominantScan(result, i + 1, result[emotion], emotion)
         ELSE DominantScan(result, i + 1, max_value, max_emotion)

FrameMaxEmotionFromZero(result) == DominantScan(result, 1, 0, None)

FrameMaxEmotion(result) == DominantScan(result, 1, -1, None)

NewEmotionAnalysis(result) ==
    [timestamp |-> result.timestamp, angry |-> result.angry, sad |-> result.sad,
     happy |-> result.happy, dominant_emotion |-> ""]

AggregateInit ==
    [sums |-> [e \in Range(supported_emotions) |-> 0],
     counts |-> [e \in Range(supported_emotions) |-> 0],
     analyses |-> <<>>]

AggregateStep(acc, result) ==
    LET max_emotion == FrameMaxEmotion(result) IN
    [sums |-> [e \in Range(supported_emotions) |-> acc.sums[e] + result[e]],
     counts |-> IF max_emotion # None
                THEN [acc.counts EXCEPT ![max_emotion] = @ + 1]
                ELSE acc.counts,
     analyses |-> Append(acc.analyses, NewEmotionAnalysis(result))]

RECURSIVE AggregateLoop(_, _, _)
AggregateLoop(acc, rs, i) ==
    IF i > Len(rs) THEN acc ELSE AggregateLoop(AggregateStep(acc, rs[i]), rs, i + 1)

(***************************************************************************)
(* create_emotion_timeline (tasks.py 169-239).                             *)
(***************************************************************************)
SegmentConfidenceMax(segment_frames) ==
    IF segment_frames # <<>>
    THEN Rat(CHOOSE m \in Range(segment_frames) :
                \A x \in Range(segment_frames) : x <= m, 1)
    ELSE Rat(0, 1)

SegmentConfidence(segment_frames) ==
    IF segment_frames # <<>>
    THEN Rat(SumSeq(segment_frames), Len(segment_frames))
    ELSE Rat(0, 1)

NewSegmentFrameCount(segment_start, end_time, current_emotion, segment_frames) ==
    [start_time |-> segment_start, end_time |-> end_time,
     duration |-> Len(segment_frames),
     dominant_emotion |-> current_emotion,
     confidence |-> SegmentConfidence(segment_frames)]

NewSegment(segment_start, end_time, current_emotion, segment_frames) ==
    [start_time |-> segment_start, end_time |-> end_time,
     duration |-> end_time - segment_start,
     dominant_emotion |-> current_emotion,
     confidence |-> SegmentConfidence(segment_frames)]

EmotionChangedAlways(current_emotion, dominant_emotion) == TRUE

EmotionChanged(current_emotion, dominant_emotion) ==
    current_emotion = None \/ current_emotion # dominant_emotion

StartSegmentStaleStart(acc, dominant_emotion, confidence, timestamp) ==
    [acc EXCEPT !.current_emotion = dominant_emotion,
                !.segment_frames = <<confidence>>]

StartSegment(acc, dominant_emotion, confidence, timestamp) ==
    [acc EXCEPT !.current_emotion = dominant_emotion,
                !.segment_start = timestamp,
                !.segment_frames = <<confidence>>]

TimelineInitCarried ==
    [current_emotion |-> None, segment_start |-> 0, segment_frames |-> <<>>,
     emotion_segments |-> emotion_segments]

TimelineInit ==
    [current_emotion |-> None, segment_start |-> 0, segment_frames |-> <<>>,
     emotion_segments |-> <<>>]

TimelineStep(acc, analysis) ==
    LET emotions == [angry |-> analysis.angry, sad |-> analysis.sad,
                     happy |-> analysis.happy]
        dominant_emotion == PyMax(TimelineKeys, emotions)
        confidence == emotions[dominant_emotion]
    IN IF EmotionChanged(acc.current_emotion, dominant_emotion)
       THEN LET closed ==
                  IF acc.current_emotion # None
                  THEN [acc EXCEPT !.emotion_segments =
                          Append(@, NewSegment(acc.segment_start, analysis.timestamp,
                                               acc.current_emotion, acc.segment_frames))]
                  ELSE acc
            IN StartSegment(closed, dominant_emotion, confidence, analysis.timestamp)
       ELSE [acc EXCEPT !.segment_frames = Append(@, confidence)]

RECURSIVE TimelineLoop(_, _, _)
TimelineLoop(acc, sorted_analyses, i) ==
    IF i > Len(sorted_analyses) THEN acc
    ELSE TimelineLoop(TimelineStep(acc, sorted_analyses[i]), sorted_analyses, i + 1)

create_emotion_timelineDropsLast(analyses) ==
    IF analyses = <<>> THEN <<>>
    ELSE TimelineLoop(TimelineInit, SortByTimestamp(analyses), 1).emotion_segments

create_emotion_timelineZeroLast(analyses) ==
    IF analyses = <<>> THEN <<>>
    ELSE LET sorted_analyses == SortByTimestamp(analyses)
             acc == TimelineLoop(TimelineInit, sorted_analyses, 1)
         IN IF acc.current_emotion # None
            THEN Append(acc.emotion_segments,
                        NewSegment(acc.segment_start, acc.segment_start,
                                   acc.current_emotion, acc.segment_frames))
            ELSE acc.emotion_segments

create_emotion_timeline(analyses) ==
    IF analyses = <<>> THEN <<>>
    ELSE LET sorted_analyses == SortByTimestamp(analyses)
             acc == TimelineLoop(TimelineInit, sorted_analyses, 1)
             last_analysis == sorted_analyses[Len(sorted_analyses)]
         IN IF acc.current_emotion # None
            THEN Append(acc.emotion_segments,
                        NewSegment(acc.segment_start, last_analysis.timestamp,
                                   acc.current_emotion, acc.segment_frames))
            ELSE acc.emotion_segments

(***************************************************************************)
(* The summary row: tasks.py 107-132 fills the averages of the supported   *)
(* emotions and 0.0 for the other fields of the table; update_or_create    *)
(* saves the row, and EmotionAnalysisSummary.save (models.py 158-170) sets *)
(* dominant_emotion.                                                       *)
(***************************************************************************)
SummaryDataNoDivision(sums, counts, num_frames) ==
    [avg |-> [k \in Range(SummaryKeys) |->
                IF k \in Range(supported_emotions)
                THEN Rat(sums[k], 1)
                ELSE Rat(0, 1)],
     emotion_counts |-> counts,
     dominant_emotion |-> ""]

SummaryData(sums, counts, num_frames) ==
    [avg |-> [k \in Range(SummaryKeys) |->
                IF k \in Range(supported_emotions)
                THEN Rat(sums[k], num_frames)
                ELSE Rat(0, 1)],
     emotion_counts |-> counts,
     dominant_emotion |-> ""]

SummarySave(row) ==
    [row EXCEPT !.dominant_emotion = PyMaxRat(SummaryKeys, row.avg)]

(***************************************************************************)
(* The state after an upload: the Video row is pending, it has no analysis *)
(* data, and VideoViewSet.perform_create has queued the task with the      *)
(* default frame_rate.  The decoder delivers as many frames as the         *)
(* container reports.                                                      *)
(***************************************************************************)
VideoFiles ==
    {f \in [exists : BOOLEAN, opens : BOOLEAN, fps : 0..MaxFps,
            frame_count : 0..MaxFrameCount, readable : 0..MaxFrameCount] :
        f.readable = f.frame_count}

(***************************************************************************)
(* The therapy sessions (therapy_sessions/views.py): SessionViewSet works  *)
(* on TherapySession rows, each created with status scheduled and no       *)
(* end_time.  Of end_time only whether it was recorded is kept.            *)
(***************************************************************************)
SessionIds == 1..MaxSessions

NewSessions == [pk \in SessionIds |-> [status |-> "scheduled", end_time |-> None]]

Locals ==
    /\ frames = <<>>
    /\ classified = <<>>
    /\ results = <<>>
    /\ processed_count = 0
    /\ failed_count = 0
    /\ analyze_returned = FALSE
    /\ emotion_analyses = <<>>
    /\ emotion_counts = AggregateInit.counts
    /\ emotion_sums = AggregateInit.sums
    /\ emotion_segments = <<>>

Init ==
    /\ videoExists \in BOOLEAN
    /\ status = "pending"
    /\ analysesDb = <<>>
    /\ timelineDb = <<>>
    /\ summaryDb = <<>>
    /\ file \in VideoFiles
    /\ model_file_ok \in BOOLEAN
    /\ frame_rate = DefaultFrameRate
    /\ pc = "queued"
    /\ ret = "none"
    /\ model = None
    /\ load_count = 0
    /\ Locals
    /\ task_queue = 0
    /\ reanalyze_count = 0
    /\ sessions = NewSessions
    /\ title = "original"
    /\ video_title = None

db == <<analysesDb, timelineDb, summaryDb>>
env == <<videoExists, file, model_file_ok, frame_rate, task_queue, reanalyze_count,
         sessions>>
detector == <<model, load_count>>
record == <<title, video_title>>
analyzer == <<frames, classified, results, processed_count, failed_count,
              analyze_returned>>
aggregates == <<emotion_analyses, emotion_counts, emotion_sums>>

(* tasks.py 20-26 and 146-148: fetch the video and mark it processing; an  *)
(* unknown video_id ends the task with False.                              *)
Start ==
    /\ pc = "queued"
    /\ IF videoExists
       THEN /\ video_title' = title
            /\ status' = "processing"
            /\ title' = video_title'
            /\ pc' = "check_path"
            /\ ret' = ret
       ELSE /\ pc' = "done"
            /\ ret' = FALSE
            /\ status' = status
            /\ UNCHANGED record
    /\ UNCHANGED <<db, env, detector, analyzer, aggregates, emotion_segments>>

(* tasks.py 28-36: a fresh detector; a missing file fails the run.         *)
CheckPath ==
    /\ pc = "check_path"
    /\ IF ~file.exists
       THEN /\ status' = "failed"
            /\ title' = video_title
            /\ ret' = FALSE
            /\ pc' = "done"
       ELSE /\ pc' = "extract"
            /\ UNCHANGED <<status, title, ret>>
    /\ model' = None
    /\ load_count' = load_count
    /\ UNCHANGED <<video_title, db, env, analyzer, aggregates, emotion_segments>>

(* analyze_video 209-223: sample the frames; none sampled returns [].      *)
ExtractFramesEagerLoad ==
    /\ pc = "extract"
    /\ frames' = extract_frames(file, frame_rate)
    /\ model' = load_model(model, model_file_ok).model
    /\ load_count' = load_count + load_model(model, model_file_ok).attempts
    /\ IF frames' = <<>>
       THEN /\ analyze_returned' = TRUE
            /\ pc' = "check_results"
       ELSE /\ analyze_returned' = FALSE
            /\ pc' = "classify"
    /\ UNCHANGED <<record, status, db, env, ret, classified, results,
                   processed_count, failed_count, aggregates, emotion_segments>>

ExtractFrames ==
    /\ pc = "extract"
    /\ frames' = extract_frames(file, frame_rate)
    /\ IF frames' = <<>>
       THEN /\ analyze_returned' = TRUE
            /\ pc' = "check_results"
       ELSE /\ analyze_returned' = FALSE
            /\ pc' = "classify"
    /\ UNCHANGED <<record, status, db, env, detector, ret, classified, results,
                   processed_count, failed_count, aggregates, emotion_segments>>

(* analyze_video 225-235, one iteration, with process_frame 72-123 and     *)
(* load_model 32-70: the model is loaded when the detector holds none; a   *)
(* frame fails when the model cannot be loaded or the frame cannot be      *)
(* classified.                                                             *)
ProcessFrame ==
    /\ pc = "classify"
    /\ Len(classified) < Len(frames)
    /\ LET frame == frames[Len(classified) + 1]
           load == load_model(model, model_file_ok)
           loaded == load.ret
       IN /\ model' = load.model
          /\ load_count' = load_count + load.attempts
          /\ \E emotion_data \in ClassifierOutputs \cup {NoEmotionData} :
                /\ ~loaded => emotion_data = NoEmotionData
                /\ classified' = Append(classified, emotion_data)
                /\ results' = AppendResult(results, frame.timestamp, emotion_data)
                /\ processed_count' =
                      IF emotion_data # NoEmotionData THEN processed_count + 1
                      ELSE processed_count
                /\ failed_count' =
                      IF emotion_data # NoEmotionData THEN failed_count
                      ELSE failed_count + 1
    /\ UNCHANGED <<record, status, db, env, pc, ret, frames, analyze_returned,
                   aggregates, emotion_segments>>

(* analyze_video 237-247: after the loop the results are sorted and        *)
(* returned.                                                               *)
FinishAnalyze ==
    /\ pc = "classify"
    /\ Len(classified) = Len(frames)
    /\ results' = SortByTimestamp(results)
    /\ analyze_returned' = TRUE
    /\ pc' = "check_results"
    /\ UNCHANGED <<record, status, db, env, detector, ret, frames, classified,
                   processed_count, failed_count, aggregates, emotion_segments>>

CheckResultsNoSave ==
    /\ pc = "check_results"
    /\ IF results = <<>>
       THEN /\ ret' = FALSE
            /\ pc' = "done"
       ELSE /\ pc' = "aggregate"
            /\ ret' = ret
    /\ UNCHANGED <<record, status, db, env, detector, analyzer, aggregates, emotion_segments>>

(* tasks.py 42-46: an empty result fails the run.                          *)
CheckResults ==
    /\ pc = "check_results"
    /\ IF results = <<>>
       THEN /\ status' = "failed"
            /\ title' = video_title
            /\ ret' = FALSE
            /\ pc' = "done"
       ELSE /\ pc' = "aggregate"
            /\ UNCHANGED <<status, title, ret>>
    /\ UNCHANGED <<video_title, db, env, detector, analyzer, aggregates, emotion_segments>>

(* tasks.py 48-102 and 140-144: the per-result loop, then bulk_create of   *)
(* the EmotionAnalysis rows (bulk_create does not call save()).            *)
Aggregate ==
    /\ pc = "aggregate"
    /\ LET acc == AggregateLoop(AggregateInit, results, 1) IN
       /\ emotion_sums' = acc.sums
       /\ emotion_counts' = acc.counts
       /\ emotion_analyses' = acc.analyses
       /\ analysesDb' = analysesDb \o acc.analyses
    /\ IF Len(results) > 0
       THEN /\ pc' = "timeline"
            /\ UNCHANGED <<status, title, ret>>
       ELSE /\ status' = "failed"
            /\ title' = video_title
            /\ ret' = FALSE
            /\ pc' = "done"
    /\ UNCHANGED <<video_title, timelineDb, summaryDb, env, detector, analyzer, emotion_segments>>

(* tasks.py 104 and 169-239: build the segments and bulk_create them.      *)
Timeline ==
    /\ pc = "timeline"
    /\ emotion_segments' = create_emotion_timeline(emotion_analyses)
    /\ timelineDb' = timelineDb \o emotion_segments'
    /\ pc' = "summary"
    /\ UNCHANGED <<record, status, analysesDb, summaryDb, env, detector, ret, analyzer,
                   aggregates>>

(* tasks.py 106-132: update_or_create of the video's one summary row.      *)
Summary ==
    /\ pc = "summary"
    /\ summaryDb' = <<SummarySave(SummaryData(emotion_sums, emotion_counts,
                                              Len(results)))>>
    /\ pc' = "complete"
    /\ UNCHANGED <<record, status, analysesDb, timelineDb, env, detector, ret, analyzer,
                   aggregates, emotion_segments>>

(* tasks.py 134-139.                                                       *)
Complete ==
    /\ pc = "complete"
    /\ status' = "completed"
    /\ title' = video_title
    /\ ret' = TRUE
    /\ pc' = "done"
    /\ UNCHANGED <<video_title, db, env, detector, analyzer, aggregates, emotion_segments>>

(* A database write of analysis data (bulk_create at 98 and 239,           *)
(* update_or_create at 129) raises; nothing is written and control passes  *)
(* to the handler at 158.                                                  *)
StepRaises ==
    /\ pc \in {"aggregate", "timeline", "summary"}
    /\ pc' = "except"
    /\ UNCHANGED <<record, status, db, env, detector, ret, analyzer, aggregates,
                   emotion_segments>>

(* tasks.py 158-163, 166: the handler marks the video failed.              *)
HandlerMarksFailed ==
    /\ pc = "except"
    /\ video_title' = title
    /\ status' = "failed"
    /\ title' = video_title'
    /\ ret' = FALSE
    /\ pc' = "done"
    /\ UNCHANGED <<db, env, detector, analyzer, aggregates, emotion_segments>>

(* tasks.py 160-166: the handler's own get or save raises; the error is    *)
(* logged and the task returns False.                                      *)
HandlerFails ==
    /\ pc = "except"
    /\ ret' = FALSE
    /\ pc' = "done"
    /\ UNCHANGED <<record, status, db, env, detector, analyzer, aggregates, emotion_segments>>

Next ==
    \/ Start
    \/ CheckPath
    \/ ExtractFrames
    \/ ProcessFrame
    \/ FinishAnalyze
    \/ CheckResults
    \/ Aggregate
    \/ Timeline
    \/ Summary
    \/ Complete
    \/ StepRaises
    \/ HandlerMarksFailed
    \/ HandlerFails

Spec == Init /\ [][Next]_vars

(***************************************************************************)
(* Re-analysis.  VideoViewSet.reanalyze (views.py 347-365) marks the video *)
(* pending, deletes its analysis, timeline and summary rows and queues the *)
(* task again; it does so whatever an earlier run is doing.  The worker    *)
(* runs one task at a time and takes the next queued task when the current *)
(* one has returned.                                                       *)
(***************************************************************************)
Reanalyze ==
    /\ videoExists
    /\ reanalyze_count < MaxReanalyze
    /\ status' = "pending"
    /\ analysesDb' = <<>>
    /\ timelineDb' = <<>>
    /\ summaryDb' = <<>>
    /\ task_queue' = task_queue + 1
    /\ reanalyze_count' = reanalyze_count + 1
    /\ UNCHANGED <<record, videoExists, file, model_file_ok, frame_rate, pc, ret,
                   sessions,
                   detector, analyzer, aggregates, emotion_segments>>

NextRun ==
    /\ pc = "done"
    /\ task_queue > 0
    /\ task_queue' = task_queue - 1
    /\ pc' = "queued"
    /\ ret' = "none"
    /\ frames' = <<>>
    /\ classified' = <<>>
    /\ results' = <<>>
    /\ processed_count' = 0
    /\ failed_count' = 0
    /\ analyze_returned' = FALSE
    /\ emotion_analyses' = <<>>
    /\ emotion_counts' = AggregateInit.counts
    /\ emotion_sums' = AggregateInit.sums
    /\ emotion_segments' = <<>>
    /\ video_title' = None
    /\ UNCHANGED <<title, status, db, videoExists, file, model_file_ok, frame_rate,
                   sessions, detector, reanalyze_count>>

InitRerun ==
    /\ videoExists = TRUE
    /\ status = "pending"
    /\ analysesDb = <<>>
    /\ timelineDb = <<>>
    /\ summaryDb = <<>>
    /\ file \in {f \in VideoFiles :
                    /\ f.exists /\ f.opens /\ f.fps = 1
                    /\ f.frame_count \in 1..MaxRerunFrames}
    /\ model_file_ok = TRUE
    /\ frame_rate = DefaultFrameRate
    /\ pc = "queued"
    /\ ret = "none"
    /\ model = None
    /\ load_count = 0
    /\ Locals
    /\ task_queue = 0
    /\ reanalyze_count = 0
    /\ sessions = NewSessions
    /\ title = "original"
    /\ video_title = None

NextRerun ==
    \/ Next
    \/ Reanalyze
    \/ NextRun

SpecRerun == InitRerun /\ [][NextRerun]_vars

(***************************************************************************)
(* An update of the video through the API (VideoViewSet is a               *)
(* ModelViewSet; title and description are writable in VideoSerializer)    *)
(* while the video is analyzed.  The update is committed to the row; the   *)
(* task's in-memory Video object is not affected.                          *)
(***************************************************************************)
EditVideo ==
    /\ videoExists
    /\ title = "original"
    /\ title' = "edited"
    /\ UNCHANGED <<video_title, status, db, env, pc, ret, detector, analyzer,
                   aggregates, emotion_segments>>

NextEdit ==
    \/ Next
    \/ EditVideo

SpecEdit == InitRerun /\ [][NextEdit]_vars

(***************************************************************************)
(* SessionViewSet's status actions on the session pk: each loads the       *)
(* session with get_object(), assigns the status and saves.  No action of  *)
(* the analysis pipeline touches a session.                                *)
(***************************************************************************)
pipeline == <<videoExists, status, analysesDb, timelineDb, summaryDb, file,
              model_file_ok, frame_rate, pc, ret, model, load_count, frames,
              classified, results, processed_count, failed_count,
              analyze_returned, emotion_analyses, emotion_counts, emotion_sums,
              emotion_segments, task_queue, reanalyze_count, title,
              video_title>>

mark_completed(pk) ==
    /\ sessions' = [sessions EXCEPT ![pk].status = "completed",
                                    ![pk].end_time = "recorded"]
    /\ UNCHANGED pipeline

mark_in_progress(pk) ==
    /\ sessions' = [sessions EXCEPT ![pk].status = "in_progress"]
    /\ UNCHANGED pipeline

cancel_session(pk) ==
    /\ sessions' = [sessions EXCEPT ![pk].status = "cancelled"]
    /\ UNCHANGED pipeline

NextSession ==
    \E pk \in SessionIds :
        \/ mark_completed(pk)
        \/ mark_in_progress(pk)
        \/ cancel_session(pk)

SpecSession == Init /\ [][NextSession]_vars

(***************************************************************************)
(* The sampler on its own: analyze_video is about to call extract_frames   *)
(* (emotion_detector.py 212) on any video file and with any frame_rate.    *)
(* The container's CAP_PROP_FRAME_COUNT is metadata; the number of frames  *)
(* video.read() delivers (readable) is independent of it.                  *)
(***************************************************************************)
SamplerFiles ==
    [exists : BOOLEAN, opens : BOOLEAN, fps : 0..MaxSamplerFps,
     frame_count : 0..MaxFrameCount, readable : 0..MaxReadable]

InitSampler ==
    /\ videoExists = TRUE
    /\ status = "processing"
    /\ analysesDb = <<>>
    /\ timelineDb = <<>>
    /\ summaryDb = <<>>
    /\ file \in SamplerFiles
    /\ model_file_ok = TRUE
    /\ frame_rate \in 1..MaxRate
    /\ pc = "extract"
    /\ ret = "none"
    /\ model = None
    /\ load_count = 0
    /\ Locals
    /\ task_queue = 0
    /\ reanalyze_count = 0
    /\ sessions = NewSessions
    /\ title = "original"
    /\ video_title = "original"

NextSampler == ExtractFrames

SpecSampler == InitSampler /\ [][NextSampler]_vars

(***************************************************************************)
(* Vocabulary of the properties, stated from the specification and not     *)
(* through the operators above.                                            *)
(***************************************************************************)
ConfiguredOrder == <<"angry", "sad", "happy">>
Labels == Range(ConfiguredOrder)
PosOf(l) == CHOOSE i \in DOMAIN ConfiguredOrder : ConfiguredOrder[i] = l

(* the highest score of a frame result *)
TopScore(a) == CHOOSE v \in {a[l] : l \in Labels} : \A l \in Labels : a[l] <= v

(* argmax, ties going to the label earliest in the configured order *)
ArgmaxFirst(a) ==
    CHOOSE l \in Labels :
        /\ a[l] = TopScore(a)
        /\ \A k \in Labels : a[k] = TopScore(a) => PosOf(l) <= PosOf(k)

StrictlyAscending(xs) ==
    \A i \in 1..(Len(xs) - 1) : xs[i].timestamp < xs[i + 1].timestamp

(* the state right after create_emotion_timeline has run *)
TimelineBuilt == pc = "summary"

FirstTime == emotion_analyses[1].timestamp
LastTime == emotion_analyses[Len(emotion_analyses)].timestamp

(* the frames of segment k: those from its start up to, not including, its *)
(* end; the final segment also holds the last frame                        *)
FramesOfSegment(k) ==
    {i \in DOMAIN emotion_analyses :
        /\ emotion_segments[k].start_time <= emotion_analyses[i].timestamp
        /\ \/ emotion_analyses[i].timestamp < emotion_segments[k].end_time
           \/ k = Len(emotion_segments)}

RECURSIVE SumOver(_, _)
SumOver(S, f) ==
    IF S = {} THEN 0
    ELSE LET x == CHOOSE y \in S : TRUE IN f[x] + SumOver(S \ {x}, f)

Changes ==
    {i \in 1..(Len(emotion_analyses) - 1) :
        ArgmaxFirst(emotion_analyses[i]) # ArgmaxFirst(emotion_analyses[i + 1])}

(***************************************************************************)
(* C1.  For a non-empty frame-result sequence with ascending timestamps,   *)
(* the durations of the segments built by create_emotion_timeline sum to   *)
(* exactly the last frame's timestamp minus the first frame's.             *)
(***************************************************************************)
C1_DurationsSumToSpan ==
    TimelineBuilt =>
        /\ emotion_analyses # <<>>
        /\ StrictlyAscending(emotion_analyses)
        /\ SumOver(DOMAIN emotion_segments,
                   [k \in DOMAIN emotion_segments |-> emotion_segments[k].duration])
             = LastTime - FirstTime

C1_Witness ==
    /\ TimelineBuilt
    /\ Len(emotion_analyses) >= 4
    /\ Len(emotion_segments) = 3
    /\ emotion_segments[2].duration = 2

(***************************************************************************)
(* C2.  The segments are in ascending start_time order, the first starts   *)
(* at the first frame's timestamp, the last ends at the last frame's       *)
(* timestamp, and each segment ends where the next starts.                 *)
(***************************************************************************)
C2_SegmentsContiguous ==
    TimelineBuilt =>
        /\ emotion_segments # <<>>
        /\ emotion_segments[1].start_time = FirstTime
        /\ emotion_segments[Len(emotion_segments)].end_time = LastTime
        /\ \A k \in 1..(Len(emotion_segments) - 1) :
              /\ emotion_segments[k].end_time = emotion_segments[k + 1].start_time
              /\ emotion_segments[k].start_time < emotion_segments[k + 1].start_time

C2_Witness ==
    /\ TimelineBuilt
    /\ Len(emotion_segments) >= 3
    /\ emotion_segments[1].end_time > emotion_segments[1].start_time + 1

(***************************************************************************)
(* C3.  Segments are maximal runs: every frame of a segment has the        *)
(* segment's dominant emotion as its own, adjacent segments differ in      *)
(* dominant emotion, and there is one segment more than there are          *)
(* consecutive frame pairs whose dominant emotions differ.                 *)
(***************************************************************************)
C3_SegmentsAreMaximalRuns ==
    TimelineBuilt =>
        /\ \A k \in DOMAIN emotion_segments :
              /\ FramesOfSegment(k) # {}
              /\ \A i \in FramesOfSegment(k) :
                    ArgmaxFirst(emotion_analyses[i]) = emotion_segments[k].dominant_emotion
        /\ \A k \in 1..(Len(emotion_segments) - 1) :
              emotion_segments[k].dominant_emotion # emotion_segments[k + 1].dominant_emotion
        /\ Len(emotion_segments) = 1 + Cardinality(Changes)

C3_Witness ==
    /\ TimelineBuilt
    /\ Len(emotion_segments) = 2
    /\ Cardinality(FramesOfSegment(1)) = 2
    /\ Cardinality(FramesOfSegment(2)) = 2

(***************************************************************************)
(* C4.  The per-frame dominant emotion is the label with the maximum       *)
(* score, ties going to the label earliest in the order angry, sad, happy: *)
(* the segment a frame opens carries that label, the histogram counts the  *)
(* frames by that label, and when every frame has three equal scores there *)
(* is exactly one segment, angry, from the first to the last timestamp.    *)
(***************************************************************************)
AllScoresEqual(a) == a.angry = a.sad /\ a.sad = a.happy

C4_DominantIsFirstArgmax ==
    TimelineBuilt =>
        /\ \A k \in DOMAIN emotion_segments :
              \A i \in DOMAIN emotion_analyses :
                 emotion_analyses[i].timestamp = emotion_segments[k].start_time
                 => emotion_segments[k].dominant_emotion
                       = ArgmaxFirst(emotion_analyses[i])
        /\ \A l \in Labels :
              emotion_counts[l]
                 = Cardinality({i \in DOMAIN results : ArgmaxFirst(results[i]) = l})
        /\ (\A i \in DOMAIN emotion_analyses : AllScoresEqual(emotion_analyses[i]))
           => /\ Len(emotion_segments) = 1
              /\ emotion_segments[1].dominant_emotion = "angry"
              /\ emotion_segments[1].start_time = FirstTime
              /\ emotion_segments[1].end_time = LastTime

C4_Witness ==
    /\ TimelineBuilt
    /\ Len(emotion_analyses) >= 3
    /\ \A i \in DOMAIN emotion_analyses : AllScoresEqual(emotion_analyses[i])
    /\ \E i \in DOMAIN emotion_analyses : emotion_analyses[i].angry = 1
    /\ Len(emotion_segments) = 1

C4_WitnessTwoWayTie ==
    /\ TimelineBuilt
    /\ \E i \in DOMAIN emotion_analyses :
          /\ emotion_analyses[i].angry < emotion_analyses[i].sad
          /\ emotion_analyses[i].sad = emotion_analyses[i].happy
          /\ \E k \in DOMAIN emotion_segments :
                /\ emotion_segments[k].start_time = emotion_analyses[i].timestamp
                /\ emotion_segments[k].dominant_emotion = "sad"

(***************************************************************************)
(* C5.  A segment's confidence is the arithmetic mean of the per-frame top *)
(* score over exactly the frames of its run: from the frame that opened it *)
(* to the frame before the one that closed it (to the last frame for the   *)
(* final segment).                                                         *)
(***************************************************************************)
C5_ConfidenceIsMeanOfRun ==
    TimelineBuilt =>
        \A k \in DOMAIN emotion_segments :
           LET run == FramesOfSegment(k)
               tops == [i \in run |-> TopScore(emotion_analyses[i])]
           IN /\ run # {}
              /\ RatEQ(emotion_segments[k].confidence,
                       Rat(SumOver(run, tops), Cardinality(run)))

C5_Witness ==
    /\ TimelineBuilt
    /\ Len(emotion_segments) >= 2
    /\ Cardinality(FramesOfSegment(1)) = 2
    /\ emotion_segments[1].confidence = Rat(1, 2)
    /\ TopScore(emotion_analyses[3]) = 1

(***************************************************************************)
(* C6.  The emotion_counts histogram sums to the number of frame results:  *)
(* every frame result increments exactly one label, and frames whose       *)
(* classification failed are not counted.                                  *)
(***************************************************************************)
HistogramTotal(counts) == SumOver(Labels, counts)

C6_HistogramSumsToFrames ==
    /\ pc = "timeline" =>
          /\ DOMAIN emotion_counts = Labels
          /\ HistogramTotal(emotion_counts) = Len(results)
          /\ Len(results) = Len(frames) - failed_count
    /\ summaryDb # <<>> =>
          HistogramTotal(summaryDb[1].emotion_counts) = Len(results)

C6_Witness ==
    /\ summaryDb # <<>>
    /\ Len(frames) = 4
    /\ failed_count = 2
    /\ HistogramTotal(summaryDb[1].emotion_counts) = 2
    /\ \E i \in DOMAIN results : AllScoresEqual(results[i]) /\ results[i].angry = 0

(***************************************************************************)
(* C7.  The summary's overall dominant emotion is the configured label     *)
(* with the highest average score, ties going to the label earliest in the *)
(* order angry, sad, happy.                                                *)
(***************************************************************************)
AvgOf(l) == Rat(emotion_sums[l], Len(results))

HighestAverageFirst ==
    CHOOSE l \in Labels :
        /\ \A k \in Labels : ~RatGT(AvgOf(k), AvgOf(l))
        /\ \A k \in Labels : RatEQ(AvgOf(k), AvgOf(l)) => PosOf(l) <= PosOf(k)

C7_SummaryDominantIsFirstArgmax ==
    summaryDb # <<>> => summaryDb[1].dominant_emotion = HighestAverageFirst

(***************************************************************************)
(* C8.  analyze_video returns exactly the successfully classified frames,  *)
(* without placeholders, in ascending timestamp order; every sampled frame *)
(* is either processed or failed, and a failure does not end the run.      *)
(***************************************************************************)
RECURSIVE ClassifiedFrames(_)
ClassifiedFrames(n) ==
    IF n = 0 THEN <<>>
    ELSE IF classified[n] \in ClassifierOutputs
         THEN Append(ClassifiedFrames(n - 1),
                     [timestamp |-> frames[n].timestamp,
                      angry |-> classified[n].angry,
                      sad |-> classified[n].sad,
                      happy |-> classified[n].happy])
         ELSE ClassifiedFrames(n - 1)

C8_ResultsAreClassifiedFrames ==
    analyze_returned =>
        /\ Len(classified) = Len(frames)
        /\ results = ClassifiedFrames(Len(frames))
        /\ StrictlyAscending(results)
        /\ processed_count + failed_count = Len(frames)
        /\ processed_count = Len(results)

C8_Witness ==
    /\ analyze_returned
    /\ Len(frames) = 4
    /\ classified[2] = NoEmotionData
    /\ classified[3] \in ClassifierOutputs
    /\ Len(results) = 3

(***************************************************************************)
(* C9.  When analyze_video returns the empty sequence the task marks the   *)
(* video failed and returns False, and no analysis, timeline or summary    *)
(* row is persisted.                                                       *)
(***************************************************************************)
C9_EmptyResultFailsRun ==
    (analyze_returned /\ results = <<>> /\ pc \notin {"check_results"}) =>
        /\ pc = "done"
        /\ status = "failed"
        /\ ret = FALSE
        /\ analysesDb = <<>>
        /\ timelineDb = <<>>
        /\ summaryDb = <<>>

C9_Witness ==
    /\ analyze_returned
    /\ results = <<>>
    /\ pc = "done"
    /\ Len(frames) >= 2
    /\ failed_count = Len(frames)
    /\ model = "loaded"

C9_WitnessNoFrames ==
    /\ analyze_returned
    /\ pc = "done"
    /\ frames = <<>>
    /\ status = "failed"

(***************************************************************************)
(* C10.  A run on an existing video marks it processing before sampling or *)
(* classification starts, and when the run has returned the status is      *)
(* completed if it returned True and failed if it returned False; it is    *)
(* never left at processing.                                               *)
(***************************************************************************)
C10_StatusSettledOnReturn ==
    videoExists =>
        /\ pc \in {"extract", "classify"} => status = "processing"
        /\ pc = "done" =>
              \/ ret = TRUE /\ status = "completed"
              \/ ret = FALSE /\ status = "failed"
        /\ status = "completed" => pc = "done" /\ ret = TRUE

(***************************************************************************)
(* C11.  Under every interleaving of reanalyze requests and task runs,     *)
(* once the last run has completed (it returned True and no task is        *)
(* queued) the persisted per-frame rows and timeline rows are exactly      *)
(* those the last run produced.                                            *)
(***************************************************************************)
C11_RowsAreLastRunsRows ==
    (pc = "done" /\ ret = TRUE /\ task_queue = 0) =>
        /\ analysesDb = emotion_analyses
        /\ timelineDb = emotion_segments

(***************************************************************************)
(* C12.  The model-load operation is executed at most once in the process, *)
(* also when a load attempt fails: the number of executed loads never      *)
(* exceeds one.                                                            *)
(***************************************************************************)
C12_LoadAtMostOnce == load_count <= 1

(***************************************************************************)
(* C13.  Once load_model has succeeded on a detector, no later step        *)
(* replaces or resets the detector's model and no later step loads again.  *)
(***************************************************************************)
C13_LoadedModelIsKept ==
    [][model = "loaded" => (model' = "loaded" /\ load_count' = load_count)]_vars

C13_Witness ==
    /\ model = "loaded"
    /\ load_count = 1
    /\ Len(classified) >= 2
    /\ processed_count >= 2

(***************************************************************************)
(* The segmenter on its own: create_emotion_timeline (tasks.py 169-239) is *)
(* called on any list of analyses, the empty list included.  The analyses  *)
(* come from frame results whose timestamps ascend strictly (the native    *)
(* indices start, start + interval, ...).  SegmentAgain is a second call   *)
(* of create_emotion_timeline on the same list.                            *)
(***************************************************************************)
SegmenterResults(scores, start, interval) ==
    [i \in DOMAIN scores |->
        [timestamp |-> start + (i - 1) * interval, angry |-> scores[i].angry,
         sad |-> scores[i].sad, happy |-> scores[i].happy]]

InitSegmenter ==
    \E n \in 0..MaxSegmenterFrames, start \in 0..MaxSegmenterStart,
       interval \in 1..MaxSegmenterInterval :
      \E scores \in [1..n -> ClassifierOutputs] :
        LET rs == SegmenterResults(scores, start, interval)
            acc == AggregateLoop(AggregateInit, rs, 1)
        IN /\ videoExists = TRUE
           /\ status = "processing"
           /\ analysesDb = acc.analyses
           /\ timelineDb = <<>>
           /\ summaryDb = <<>>
           /\ file = [exists |-> TRUE, opens |-> TRUE, fps |-> interval,
                      frame_count |-> start + n * interval,
                      readable |-> start + n * interval]
           /\ model_file_ok = TRUE
           /\ frame_rate = DefaultFrameRate
           /\ pc = "timeline"
           /\ ret = "none"
           /\ model = IF n = 0 THEN None ELSE "loaded"
           /\ load_count = IF n = 0 THEN 0 ELSE 1
           /\ frames = [i \in 1..n |-> [timestamp |-> rs[i].timestamp]]
           /\ classified = scores
           /\ results = rs
           /\ processed_count = n
           /\ failed_count = 0
           /\ analyze_returned = TRUE
           /\ emotion_analyses = acc.analyses
           /\ emotion_counts = acc.counts
           /\ emotion_sums = acc.sums
           /\ emotion_segments = <<>>
           /\ task_queue = 0
           /\ reanalyze_count = 0
           /\ sessions = NewSessions
           /\ title = "original"
           /\ video_title = "original"

SegmentAgain ==
    /\ pc = "summary"
    /\ emotion_segments' = create_emotion_timeline(emotion_analyses)
    /\ timelineDb' = timelineDb \o emotion_segments'
    /\ pc' = "segmented_again"
    /\ UNCHANGED <<record, status, analysesDb, summaryDb, env, detector, ret, analyzer,
                   aggregates>>

NextSegmenter ==
    \/ Timeline
    \/ SegmentAgain

SpecSegmenter == InitSegmenter /\ [][NextSegmenter]_vars

(***************************************************************************)
(* Vocabulary of the sampler claims.                                       *)
(***************************************************************************)
(* extract_frames has returned *)
SamplerDone == pc # "extract"

(* the file passes extract_frames' checks *)
SamplerAccepts == file.exists /\ file.opens /\ file.fps > 0 /\ file.frame_count > 0

(* Python's round(a / b) for positive integers: to nearest, ties to even *)
RoundHalfEven(a, b) ==
    LET q == a \div b
        r == a % b
    IN IF 2 * r < b THEN q
       ELSE IF 2 * r > b THEN q + 1
       ELSE IF q % 2 = 0 THEN q ELSE q + 1

(* the native indices the decoder delivers *)
DecodedIndices == 0..(file.readable - 1)

SampledIndices == {frames[k].timestamp : k \in 1..Len(frames)}

(***************************************************************************)
(* C14.  For fps > 0 and a target rate > 0 the sampling interval used by   *)
(* extract_frames is max(1, round(fps / target_rate)): the second frame    *)
(* returned lies that many native frames after the first.                  *)
(***************************************************************************)
C14_IntervalIsRounded ==
    (SamplerDone /\ SamplerAccepts /\ Len(frames) >= 2) =>
        frames[2].timestamp - frames[1].timestamp =
            PyMax2(1, RoundHalfEven(file.fps, frame_rate))

(***************************************************************************)
(* C15.  extract_frames returns exactly the decoded frames whose 0-based   *)
(* native index is a multiple of the interval, in native order, each       *)
(* stamped with its own index (over fps), so the timestamps are strictly   *)
(* increasing.                                                             *)
(***************************************************************************)
C15_SampledAreMultiplesOfInterval ==
    (SamplerDone /\ SamplerAccepts) =>
        LET frame_interval == FrameInterval(file.fps, frame_rate)
            expected == {i \in DecodedIndices : i % frame_interval = 0}
        IN /\ SampledIndices = expected
           /\ Len(frames) = Cardinality(expected)
           /\ StrictlyAscending(frames)

C15_Witness ==
    /\ SamplerDone
    /\ SamplerAccepts
    /\ FrameInterval(file.fps, frame_rate) = 2
    /\ file.readable = 4
    /\ frames = <<[timestamp |-> 0], [timestamp |-> 2]>>

(***************************************************************************)
(* C16.  As claimed: the number of frames extract_frames returns is at     *)
(* most the video's reported frame count.                                  *)
(***************************************************************************)
C16_AtMostReportedCount == SamplerDone => Len(frames) <= file.frame_count

(***************************************************************************)
(* C16, amended.  The number of frames extract_frames returns is at most   *)
(* the number of frames the decoder delivers; it is at most the reported   *)
(* frame count whenever the decoder delivers no more frames than reported. *)
(***************************************************************************)
C16_AtMostDecodedCount ==
    SamplerDone =>
        /\ Len(frames) <= file.readable
        /\ file.readable <= file.frame_count => Len(frames) <= file.frame_count

C16_Witness ==
    /\ SamplerDone
    /\ SamplerAccepts
    /\ file.readable > file.frame_count
    /\ Len(frames) > file.frame_count
    /\ Len(frames) = file.readable

(***************************************************************************)
(* C17.  A file that cannot be opened, or that reports fps <= 0 or         *)
(* frame_count <= 0, makes extract_frames fail with an error, an outcome   *)
(* distinguishable from the empty sequence it returns for a video that     *)
(* opens, passes the checks and yields zero frames.                        *)
(***************************************************************************)
C17_ErrorsDifferFromEmpty ==
    (SamplerDone /\ file.exists /\ ~SamplerAccepts) =>
        frames # extract_frames([exists |-> TRUE, opens |-> TRUE, fps |-> 1,
                                 frame_count |-> 1, readable |-> 0], frame_rate)

(***************************************************************************)
(* C18.  When the sampler rejects the video or otherwise yields no frames, *)
(* analyze_video has made no classification call and no model-load attempt *)
(* when it returns.                                                        *)
(***************************************************************************)
C18_NoFramesNoClassifierWork ==
    (analyze_returned /\ frames = <<>>) =>
        /\ classified = <<>>
        /\ results = <<>>
        /\ load_count = 0
        /\ model = None

C18_Witness ==
    /\ analyze_returned
    /\ frames = <<>>
    /\ file.exists /\ file.opens
    /\ file.fps = 0
    /\ file.frame_count > 0
    /\ model_file_ok
    /\ pc = "check_results"

(***************************************************************************)
(* C19.  The aggregator and the segmenter apply the same per-frame         *)
(* dominance rule: for each label, the histogram count kept by the         *)
(* strict-greater scan equals the number of frames lying in the timeline's *)
(* runs of that label.                                                     *)
(***************************************************************************)
FramesInRunsOf(l) ==
    UNION {FramesOfSegment(k) :
              k \in {j \in DOMAIN emotion_segments :
                        emotion_segments[j].dominant_emotion = l}}

C19_HistogramMatchesRuns ==
    TimelineBuilt =>
        \A l \in Labels : emotion_counts[l] = Cardinality(FramesInRunsOf(l))

C19_Witness ==
    /\ TimelineBuilt
    /\ Len(emotion_segments) >= 2
    /\ \E i \in DOMAIN emotion_analyses :
          /\ emotion_analyses[i].sad = emotion_analyses[i].happy
          /\ emotion_analyses[i].angry < emotion_analyses[i].sad
    /\ emotion_counts["sad"] >= 1
    /\ emotion_counts["happy"] >= 1
    /\ Cardinality(FramesInRunsOf("sad")) >= 1

(***************************************************************************)
(* Vocabulary of the averages claim.                                       *)
(***************************************************************************)
(* the sum of label l's scores over all frame results *)
ScoreSum(l) == SumOver(DOMAIN results, [i \in DOMAIN results |-> results[i][l]])

(* analyze_video returned no frame result and the task has ended *)
EndedWithoutResults == pc = "done" /\ analyze_returned /\ results = <<>>

AveragesAreMeans ==
    summaryDb # <<>> =>
        /\ Len(results) > 0
        /\ \A l \in Labels :
              RatEQ(summaryDb[1].avg[l], Rat(ScoreSum(l), Len(results)))

(***************************************************************************)
(* C20.  As claimed: each summary average is the sum of the emotion's      *)
(* scores over all frame results divided by the number of frame results,   *)
(* and for zero frame results the aggregation yields averages that are all *)
(* 0.0.                                                                    *)
(***************************************************************************)
C20_AveragesZeroWhenNoResults ==
    /\ AveragesAreMeans
    /\ EndedWithoutResults =>
          /\ summaryDb # <<>>
          /\ \A l \in Labels : RatEQ(summaryDb[1].avg[l], Rat(0, 1))

(***************************************************************************)
(* C20, amended.  Each summary average is the sum of the emotion's scores  *)
(* over all frame results divided by the number of frame results, and the  *)
(* aggregation never divides by zero: for zero frame results no summary is *)
(* written, the run is marked failed and the task returns False.           *)
(***************************************************************************)
C20_AveragesOrFailedRun ==
    /\ AveragesAreMeans
    /\ EndedWithoutResults =>
          /\ summaryDb = <<>>
          /\ status = "failed"
          /\ ret = FALSE

C20_Witness ==
    /\ summaryDb # <<>>
    /\ Len(results) = 3
    /\ ScoreSum("sad") = 2
    /\ ScoreSum("happy") = 1
    /\ ScoreSum("angry") = 0
    /\ RatEQ(summaryDb[1].avg["sad"], Rat(2, 3))

C20_WitnessNoResults ==
    /\ EndedWithoutResults
    /\ Len(frames) >= 2
    /\ failed_count = Len(frames)
    /\ status = "failed"

(***************************************************************************)
(* C21.  Segmenting an empty frame-result sequence produces no segments    *)
(* (and writes none); segmenting a single frame result produces exactly    *)
(* one segment whose start_time and end_time are that frame's timestamp    *)
(* and whose duration is 0.                                                *)
(***************************************************************************)
C21_EmptyAndSingleFrame ==
    TimelineBuilt =>
        /\ emotion_analyses = <<>> =>
              emotion_segments = <<>> /\ timelineDb = <<>>
        /\ Len(emotion_analyses) = 1 =>
              /\ Len(emotion_segments) = 1
              /\ emotion_segments[1].start_time = emotion_analyses[1].timestamp
              /\ emotion_segments[1].end_time = emotion_analyses[1].timestamp
              /\ emotion_segments[1].duration = 0
              /\ timelineDb = emotion_segments

C21_Witness ==
    /\ TimelineBuilt
    /\ Len(emotion_analyses) = 1
    /\ emotion_analyses[1].timestamp = 1
    /\ Len(emotion_segments) = 1
    /\ emotion_segments[1].start_time = 1

C21_WitnessEmpty ==
    /\ TimelineBuilt
    /\ emotion_analyses = <<>>
    /\ emotion_segments = <<>>

ReanalyzeStep == reanalyze_count' # reanalyze_count

AllowedStatusStep ==
    \/ status' = status
    \/ status = "pending" /\ status' = "processing"
    \/ status = "processing" /\ status' \in {"completed", "failed"}
    \/ status' = "pending" /\ ReanalyzeStep

C23_StatusFollowsLifecycle == [][AllowedStatusStep]_vars

(***************************************************************************)
(* C24.  Every per-frame EmotionAnalysis row the task has persisted        *)
(* carries a dominant_emotion, never blank, naming an emotion whose score  *)
(* is the highest in that row.                                             *)
(***************************************************************************)
C24_RowsCarryDominantEmotion ==
    \A i \in DOMAIN analysesDb :
        /\ analysesDb[i].dominant_emotion # ""
        /\ analysesDb[i].dominant_emotion \in Labels
        /\ analysesDb[i][analysesDb[i].dominant_emotion] = TopScore(analysesDb[i])

(***************************************************************************)
(* C25.  A completed therapy session cannot be cancelled: cancel_session   *)
(* invoked on a session whose status is completed leaves its status        *)
(* completed.                                                              *)
(***************************************************************************)
C25_CompletedStaysCompletedOnCancel ==
    [][\A pk \in SessionIds :
          (sessions[pk].status = "completed" /\ cancel_session(pk))
          => sessions'[pk].status = "completed"]_vars

(***************************************************************************)
(* C26.  mark_in_progress sets a session's status to in_progress only when *)
(* the session is scheduled; on a session with any other status it leaves  *)
(* the status unchanged.                                                   *)
(***************************************************************************)
C26_InProgressOnlyFromScheduled ==
    [][\A pk \in SessionIds :
          mark_in_progress(pk) =>
             IF sessions[pk].status = "scheduled"
             THEN sessions'[pk].status = "in_progress"
             ELSE sessions'[pk].status = sessions[pk].status]_vars

(***************************************************************************)
(* C27.  With strictly increasing frame timestamps every segment except    *)
(* the last has a strictly positive duration, and the last segment has     *)
(* zero duration exactly when the sequence has a single frame or the final *)
(* frame's dominant emotion differs from that of the frame before it.      *)
(***************************************************************************)
LastFrameStandsAlone ==
    \/ Len(emotion_analyses) = 1
    \/ ArgmaxFirst(emotion_analyses[Len(emotion_analyses)])
          # ArgmaxFirst(emotion_analyses[Len(emotion_analyses) - 1])

C27_OnlyLastSegmentCanBeZeroWidth ==
    (TimelineBuilt /\ StrictlyAscending(emotion_analyses)) =>
        /\ \A k \in 1..(Len(emotion_segments) - 1) :
              emotion_segments[k].duration > 0
        /\ emotion_segments[Len(emotion_segments)].duration = 0
              <=> LastFrameStandsAlone

C27_Witness ==
    /\ TimelineBuilt
    /\ Len(emotion_analyses) = 4
    /\ Len(emotion_segments) = 2
    /\ emotion_segments[1].duration > 0
    /\ emotion_segments[2].duration > 0
    /\ ~LastFrameStandsAlone

C27_WitnessZeroWidth ==
    /\ TimelineBuilt
    /\ Len(emotion_analyses) = 3
    /\ Len(emotion_segments) = 2
    /\ emotion_segments[2].duration = 0
    /\ LastFrameStandsAlone

(***************************************************************************)
(* C28.  In every reachable state, all interleavings of task runs with     *)
(* reanalyze requests included, a video whose status is completed has at   *)
(* least one EmotionAnalysis row, at least one EmotionTimeline row and     *)
(* exactly one EmotionAnalysisSummary row.                                 *)
(***************************************************************************)
C28_CompletedHasAnalysisData ==
    status = "completed" =>
        /\ Len(analysesDb) >= 1
        /\ Len(timelineDb) >= 1
        /\ Len(summaryDb) = 1

(***************************************************************************)
(* C29.  The analysis task modifies only the status of the video record:   *)
(* a change of the title (description, links) committed through the API    *)
(* while the task runs is still present after every later step of the      *)
(* task, its final save included.                                          *)
(***************************************************************************)
C29_CommittedEditSurvivesTask ==
    [][title = "edited" => title' = "edited"]_vars

(***************************************************************************)
(* C30.  A failed run leaves no partial results: whenever a run of the     *)
(* task ends with the video's status failed, no EmotionAnalysis,           *)
(* EmotionTimeline or EmotionAnalysisSummary row written by that run       *)
(* remains persisted.                                                      *)
(***************************************************************************)
C30_FailedRunLeavesNoRows ==
    (pc = "done" /\ status = "failed") =>
        /\ analysesDb = <<>>
        /\ timelineDb = <<>>
        /\ summaryDb = <<>>

====
